---- MODULE Spec2Model ----
(***************************************************************************)
(* Model of Event<Args...> and Event::Bind (event.hpp).                    *)
(*                                                                         *)
(* One Event is modelled together with the code that uses it: the caller   *)
(* at top level and the handlers that fire invokes.  A handler is          *)
(* arbitrary user code, so while a handler runs (it is the handler of the  *)
(* innermost fire frame) it may call bind, permanent_bind and fire on the  *)
(* Event, destroy any Bind, return, or throw.  The Event itself is only    *)
(* destroyed at top level, when no fire of it is on the call stack.        *)
(*                                                                         *)
(* A std::shared_ptr<Function> is a function id with a strong reference    *)
(* count (use_count); a weak_ptr is the id alone.  A Bind is an object at  *)
(* an address; addresses are reused after a Bind is destroyed.             *)
(***************************************************************************)
EXTENDS Integers, Sequences, FiniteSets

\* Bound of the model: the calls of bind, permanent_bind and fire, the
\* handlers that throw, the writes of user code to the arguments and the
\* resets of a null shared_ptr<Bind>, over the Event's life.
MaxCalls == 4

Functions == 1..MaxCalls
\* Addresses at which a Bind can live: no more Binds are ever made.
Addrs == 1..MaxCalls
FireIds == 1..MaxCalls

\* The values of the int arguments of an Event<int, int&>.
Values == 1..2

\* The callables given to bind and permanent_bind.  What a handler does is
\* not fixed by its callable (any handler may do anything), so Spec makes
\* every Function from one callable and CallableSpec from either of two.
Callables == 1..2
\* The one callable of Spec.
SameCallable == {c \in Callables : \A d \in Callables : c <= d}

VARIABLES
    alive,            \* the Event has not been destroyed
    bound_functions,  \* Event::bound_functions, the list of shared_ptr<Function>
    binds,            \* Event::binds, the set of Bind*
    heap,             \* the Bind object at each address
    use_count,        \* strong reference count of each Function
    stack,            \* the fire frames on the call stack, innermost last
    made,             \* number of Functions made so far (make_shared calls)
    fired,            \* number of fire calls so far
    err,              \* a failed assertion or undefined behaviour, else "none"
    caller_a,         \* the variable whose value is fire's first, int argument
    caller_b,         \* the variable fire's second, int& argument refers to
    writes,           \* number of writes to these and to handlers' parameters
    \* history: read by the properties, and by the count of calls
    kind,             \* how each Function was registered
    born_in,          \* the innermost fire running when it was registered, else 0
    made_for,         \* the Function made by the bind call that returned the Bind at an address
    callable,         \* the callable each Function was made from
    unbound,          \* where the Bind of each Function was destroyed
    log,              \* what each fire call did
    written           \* the last value written through an int& parameter, else 0

\* The variables of the code that uses the Event.
user_vars == <<caller_a, caller_b, writes, written>>

vars == <<alive, bound_functions, binds, heap, use_count, stack, made, fired,
          err, kind, born_in, made_for, callable, unbound, log, user_vars>>

Range(s) == {s[i] : i \in 1..Len(s)}

\* No Bind object at an address.
NoBind == [live |-> FALSE, is_valid |-> FALSE, bound_function_iterator |-> 0]

\* The Bind of a Function has not been destroyed.  Otherwise: the innermost
\* fire and handler that were running (0 at top level), and whether the Event
\* was still alive.  Also: how many times the Function's node was erased from
\* bound_functions, and whether the shared_ptr<Bind> was reset once more.
NotUnbound == [done |-> FALSE, fire |-> 0, by |-> 0, alive |-> TRUE,
               erased |-> 0, again |-> FALSE]

\* A fire not called yet.  Otherwise: bound_functions and made when it was
\* called, the Functions that were permanent or had their Bind held then, its
\* weak_functions, the turns of its second loop so far, and the number of
\* turns made when a handler of it threw (0 if none did), and the value its
\* caller's variable had when it was called.
NoFire == [status |-> "none", at_start |-> <<>>, held |-> {},
           weak_functions |-> <<>>, turns |-> <<>>, made_before |-> 0,
           failed_at |-> 0, arg |-> 0]

----------------------------------------------------------------------------
\* The pieces of the code.

\* Variant: emplace at bound_functions.begin().
EmplaceFront(list, fn) == <<fn>> \o list

\* bound_functions.emplace(bound_functions.end(), make_shared<Function>(function))
EmplaceEnd(list, fn) == Append(list, fn)

\* Variant: the iterator kept is bound_functions.begin().
FirstIterator(list) == list[1]

\* Variant: end() itself, which is no node of the list.
EndIterator(list) == 0

\* auto it = bound_functions.end(); --it;
LastIterator(list) == list[Len(list)]

\* Variant: bind does not record the new Bind.
BindsInsertNot(set, a) == set

\* binds.insert(bind.get());
BindsInsert(set, a) == set \cup {a}

\* Variant: ~Bind leaves its address in binds.
BindsEraseNot(set, a) == set

\* event.binds.erase(this);
BindsErase(set, a) == set \ {a}

\* Variant: the Function made earlier from the same callable is used again.
MakeSharedCached(n, c) ==
    IF \E fn \in 1..n : callable[fn] = c
    THEN CHOOSE fn \in 1..n : callable[fn] = c
    ELSE n + 1

\* std::make_shared<Function>(function): a new Function, whatever the callable.
MakeShared(n, c) == n + 1

\* Variant: the constructor leaves is_valid false.
NewBindInvalid(it) ==
    [live |-> TRUE, is_valid |-> FALSE, bound_function_iterator |-> it]

\* Bind::Bind
NewBind(it) == [live |-> TRUE, is_valid |-> TRUE, bound_function_iterator |-> it]

\* Variant: invalidate leaves is_valid as it is.
InvalidateNot(b) == b

\* Bind::invalidate (the assertion is checked by its caller in the model)
invalidate(b) == [b EXCEPT !.is_valid = FALSE]

\* Variant: ~Bind erases nothing from bound_functions.
EraseNot(list, it) == list

\* Variant: the last node is erased, whatever the iterator.
EraseLast(list, it) == SubSeq(list, 1, Len(list) - 1)

\* bound_functions.erase(it): the node of the Function the iterator points at
\* goes; a Function is in the list once, made by one emplace.
Erase(list, it) == SelectSeq(list, LAMBDA x : x # it)

\* Variant: weak_functions is not empty when the first loop starts, as when
\* it is kept from one fire to the next.
SnapshotTwice(list) == list \o list

\* The weak_functions list fire builds from bound_functions.
Snapshot(list) == list

\* weak_ptr.lock() gives a non-null shared_ptr
Lock(uc, fn) == uc[fn] > 0

\* Variant: fire catches what a handler throws.
LoopGoesOnCaught(outcome) == TRUE

\* fire's second loop goes on after a handler that ended with this outcome:
\* there is no try/catch around the call.
LoopGoesOn(outcome) == outcome = "return"

\* Variant: the second loop goes through bound_functions itself.
LiveFunctionsOf(frame) == bound_functions

\* The list fire's second loop goes through: its own weak_functions.
WeakFunctionsOf(frame) == frame.weak_functions

\* Variant: destroying one shared_ptr destroys the Function at once.
ReleaseDestroys(uc, fn) == [uc EXCEPT ![fn] = 0]

\* A shared_ptr to fn is destroyed.
Release(uc, fn) == [uc EXCEPT ![fn] = @ - 1]

\* Variant: the handler is called without a shared_ptr being held.
AcquireNot(uc, fn) == uc

\* weak_ptr.lock() makes a shared_ptr to fn, held while the handler runs.
Acquire(uc, fn) == [uc EXCEPT ![fn] = @ + 1]

RECURSIVE ReleaseAll(_, _)
ReleaseAll(uc, list) ==
    IF list = <<>> THEN uc
    ELSE ReleaseAll(Release(uc, Head(list)), Tail(list))

\* Variant: the loop starts again at the first element after every call.
NextLockedFromBegin(wf, pos, uc) ==
    LET S == {i \in 1..Len(wf) : Lock(uc, wf[i])}
    IN IF S = {} THEN 0 ELSE CHOOSE i \in S : \A j \in S : i <= j

\* The first position after pos whose weak_ptr locks, 0 if there is none.
NextLocked(wf, pos, uc) ==
    LET S == {i \in (pos + 1)..Len(wf) : Lock(uc, wf[i])}
    IN IF S = {} THEN 0 ELSE CHOOSE i \in S : \A j \in S : i <= j

\* Variant: the handler's int parameter is the caller's variable itself.
PassValueLive(arg) == caller_a

\* (*shared_ptr)(args...): the handler's int parameter is a copy of fire's
\* own parameter, itself a copy made when fire was called.
PassValue(arg) == arg

\* What the loop did at position i: the Function, whether it was in
\* bound_functions and whether its Bind had been destroyed at that moment,
\* and whether it was called; if it was, the values of its int and int&
\* parameters at its entry, and the last value written through an int&.
Turn(wf, i, called, arg) ==
    [fn |-> wf[i], bound |-> wf[i] \in Range(bound_functions),
     released |-> unbound[wf[i]].done, called |-> called,
     pa |-> IF called THEN PassValue(arg) ELSE 0,
     pb |-> IF called THEN caller_b ELSE 0,
     written |-> IF called THEN written ELSE 0]

RECURSIVE Turns(_, _, _, _, _)
Turns(wf, from, to, n, arg) ==
    IF from > to THEN <<>>
    ELSE <<Turn(wf, from, from = n, arg)>> \o Turns(wf, from + 1, to, n, arg)

\* fire's second loop from position pos + 1 of frame f, with the stack stk
\* below it: it skips the weak_ptrs that do not lock, and either calls the
\* first one that does (a frame is pushed, holding the shared_ptr) or ends.
\* arg is fire's int parameter; pa is the parameter of the handler called.
Dispatch(f, wf, pos, uc, stk, lg, arg) ==
    LET n == NextLocked(wf, pos, uc)
        last == IF n = 0 THEN Len(wf) ELSE n
    IN /\ log' = [lg EXCEPT
                    ![f].turns = @ \o Turns(wf, pos + 1, last, n, arg),
                    ![f].status = IF n = 0 THEN "returned" ELSE "running"]
       /\ IF n = 0
          THEN /\ stack' = stk
               /\ use_count' = uc
          ELSE /\ stack' = Append(stk, [fire |-> f, weak_functions |-> wf,
                                        pos |-> n, shared_ptr |-> wf[n],
                                        args_a |-> arg, pa |-> PassValue(arg)])
               /\ use_count' = Acquire(uc, wf[n])

Top == stack[Len(stack)]

\* Where the running code is: the innermost fire and its handler.
HereFire == IF stack = <<>> THEN 0 ELSE Top.fire
HereFn == IF stack = <<>> THEN 0 ELSE Top.shared_ptr

\* The variable the running code passes as fire's int argument: the caller's
\* at top level, its own parameter in a handler.
HereA == IF stack = <<>> THEN caller_a ELSE Top.pa

FiresOnStack == {stack[i].fire : i \in 1..Len(stack)}

\* The Functions registered for good or whose Bind has not been destroyed.
Held == {fn \in 1..made : kind[fn] = "permanent" \/ ~unbound[fn].done}

\* The handlers that threw so far, the null handles reset again, and the
\* calls counted against MaxCalls.
Thrown == Cardinality({f \in FireIds : log[f].failed_at > 0})
ResetAgain == Cardinality({fn \in Functions : unbound[fn].again})
Calls == made + fired + Thrown + writes + ResetAgain

----------------------------------------------------------------------------
Init ==
    /\ alive = TRUE
    /\ bound_functions = <<>>
    /\ binds = {}
    /\ heap = [a \in Addrs |-> NoBind]
    /\ use_count = [fn \in Functions |-> 0]
    /\ stack = <<>>
    /\ made = 0
    /\ fired = 0
    /\ err = "none"
    /\ caller_a = 1
    /\ caller_b = 1
    /\ writes = 0
    /\ written = 0
    /\ kind = [fn \in Functions |-> "none"]
    /\ born_in = [fn \in Functions |-> 0]
    /\ made_for = [a \in Addrs |-> 0]
    /\ callable = [fn \in Functions |-> 0]
    /\ unbound = [fn \in Functions |-> NotUnbound]
    /\ log = [f \in FireIds |-> NoFire]

\* Event::permanent_bind
permanent_bind(c) ==
    /\ err = "none" /\ alive
    /\ Calls < MaxCalls
    /\ LET fn == MakeShared(made, c) IN
       /\ bound_functions' = EmplaceEnd(bound_functions, fn)
       /\ use_count' = [use_count EXCEPT ![fn] = 1]
       /\ made' = made + 1
       /\ callable' = [callable EXCEPT ![fn] = c]
       /\ kind' = [kind EXCEPT ![fn] = "permanent"]
       /\ born_in' = [born_in EXCEPT ![fn] = HereFire]
    /\ UNCHANGED <<alive, binds, heap, stack, fired, err, made_for, unbound, log,
                   user_vars>>

\* The address the allocator gives a new Bind: the lowest one holding none, so
\* that the address of a destroyed Bind is reused at once.
FreeAddr == CHOOSE a \in Addrs :
    /\ ~heap[a].live
    /\ \A b \in Addrs : ~heap[b].live => a <= b

\* Event::bind
bind(c) ==
    /\ err = "none" /\ alive
    /\ Calls < MaxCalls
    /\ LET a == FreeAddr
           fn == MakeShared(made, c)
           list == EmplaceEnd(bound_functions, fn)
       IN
       /\ bound_functions' = list
       /\ use_count' = [use_count EXCEPT ![fn] = 1]
       /\ made' = made + 1
       /\ callable' = [callable EXCEPT ![fn] = c]
       /\ heap' = [heap EXCEPT ![a] = NewBind(LastIterator(list))]
       /\ IF a \in binds
          THEN err' = "assert: new Bind already in binds" /\ binds' = binds
          ELSE err' = err /\ binds' = BindsInsert(binds, a)
       /\ kind' = [kind EXCEPT ![fn] = "bind"]
       /\ born_in' = [born_in EXCEPT ![fn] = HereFire]
       /\ made_for' = [made_for EXCEPT ![a] = fn]
    /\ UNCHANGED <<alive, stack, fired, unbound, log, user_vars>>

\* Bind::~Bind, when the last shared_ptr<Bind> to the Bind at address a goes.
Bind_dtor(a) ==
    /\ err = "none"
    /\ heap[a].live
    /\ heap' = [heap EXCEPT ![a] = NoBind]
    /\ LET it == heap[a].bound_function_iterator
           erases == /\ heap[a].is_valid /\ alive /\ a \in binds
                     /\ it \in Range(bound_functions)
           u == [unbound EXCEPT ![made_for[a]] =
                    [@ EXCEPT !.done = TRUE, !.fire = HereFire, !.by = HereFn,
                              !.alive = alive]]
       IN unbound' = IF erases THEN [u EXCEPT ![it].erased = @ + 1] ELSE u
    /\ IF heap[a].is_valid
       THEN LET it == heap[a].bound_function_iterator IN
            IF ~alive
            THEN /\ err' = "undefined: valid Bind uses a destroyed Event"
                 /\ UNCHANGED <<binds, bound_functions, use_count>>
            ELSE IF a \notin binds
            THEN /\ err' = "assert: valid Bind not in binds"
                 /\ UNCHANGED <<binds, bound_functions, use_count>>
            ELSE IF it \notin Range(bound_functions)
            THEN /\ err' = "undefined: erase of an invalid iterator"
                 /\ binds' = BindsErase(binds, a)
                 /\ UNCHANGED <<bound_functions, use_count>>
            ELSE /\ err' = err
                 /\ binds' = BindsErase(binds, a)
                 /\ bound_functions' = Erase(bound_functions, it)
                 /\ use_count' = Release(use_count, it)
       ELSE UNCHANGED <<err, binds, bound_functions, use_count>>
    /\ made_for' = [made_for EXCEPT ![a] = 0]
    /\ UNCHANGED <<alive, stack, made, fired, kind, born_in, callable, log,
                   user_vars>>

\* Event::~Event, then the destruction of the members binds and bound_functions.
Event_dtor ==
    /\ err = "none" /\ alive
    /\ stack = <<>>
    /\ alive' = FALSE
    /\ IF \E a \in binds : ~heap[a].live
       THEN /\ err' = "undefined: binds holds a destroyed Bind"
            /\ heap' = heap
       ELSE IF \E a \in binds : ~heap[a].is_valid
       THEN /\ err' = "assert: invalidate of an invalid Bind"
            /\ heap' = heap
       ELSE /\ err' = err
            /\ heap' = [a \in Addrs |->
                          IF a \in binds THEN invalidate(heap[a]) ELSE heap[a]]
    /\ binds' = {}
    /\ bound_functions' = <<>>
    /\ use_count' = ReleaseAll(use_count, bound_functions)
    /\ UNCHANGED <<stack, made, fired, kind, born_in, made_for, callable, unbound, log,
                   user_vars>>

\* Event::fire up to its first call of a handler (or its return, if it calls none).
fire ==
    /\ err = "none" /\ alive
    /\ Calls < MaxCalls
    /\ LET f == fired + 1
           wf == Snapshot(bound_functions)
       IN
       /\ fired' = f
       /\ Dispatch(f, wf, 0, use_count, stack,
                   [log EXCEPT ![f] = [NoFire EXCEPT !.at_start = bound_functions,
                                                     !.held = Held,
                                                     !.weak_functions = wf,
                                                     !.made_before = made,
                                                     !.arg = HereA]],
                   HereA)
    /\ UNCHANGED <<alive, bound_functions, binds, heap, made, err, kind,
                   born_in, made_for, callable, unbound, user_vars>>

\* The handler that fire is calling ends, by returning or by throwing: the
\* frame's shared_ptr is released, and the loop goes on or is unwound.
HandlerEnds(outcome) ==
    /\ err = "none"
    /\ stack # <<>>
    /\ LET top == Top
           f == top.fire
           uc == Release(use_count, top.shared_ptr)
           below == SubSeq(stack, 1, Len(stack) - 1)
           lg == IF outcome = "throw"
                 THEN [log EXCEPT ![f].failed_at = Len(log[f].turns)]
                 ELSE log
       IN IF LoopGoesOn(outcome)
          THEN Dispatch(f, WeakFunctionsOf(top), top.pos, uc, below, lg,
                        top.args_a)
          ELSE /\ stack' = below
               /\ use_count' = uc
               /\ log' = [lg EXCEPT ![f].status = "thrown"]
    /\ UNCHANGED <<alive, bound_functions, binds, heap, made, fired, err, kind,
                   born_in, made_for, callable, unbound, user_vars>>

\* A shared_ptr<Bind> that is already null is reset again (test.cpp:75, run
\* by the fire of test.cpp:85): no Bind is destroyed.
reset_again(fn) ==
    /\ err = "none"
    /\ Calls < MaxCalls
    /\ kind[fn] = "bind"
    /\ unbound[fn].done /\ ~unbound[fn].again
    /\ unbound' = [unbound EXCEPT ![fn].again = TRUE]
    /\ UNCHANGED <<alive, bound_functions, binds, heap, use_count, stack, made,
                   fired, err, kind, born_in, made_for, callable, log, user_vars>>

handler_return == HandlerEnds("return")

handler_throw == Calls < MaxCalls /\ HandlerEnds("throw")

Next ==
    \/ \E c \in SameCallable : permanent_bind(c)
    \/ \E c \in SameCallable : bind(c)
    \/ \E a \in Addrs : Bind_dtor(a)
    \/ \E fn \in Functions : reset_again(fn)
    \/ Event_dtor
    \/ fire
    \/ handler_return
    \/ handler_throw

Spec == Init /\ [][Next]_vars

\* Every handler that is called ends: it returns, unless it throws.
FairSpec == Spec /\ WF_vars(handler_return)

\* The same operations, with Functions made from either of two callables.
CallableNext ==
    \/ Next
    \/ \E c \in Callables : permanent_bind(c)
    \/ \E c \in Callables : bind(c)

CallableSpec == Init /\ [][CallableNext]_vars

\* The event_vars are all but the user's variables.
event_vars == <<alive, bound_functions, binds, heap, use_count, made, fired,
                err, kind, born_in, made_for, callable, unbound, log>>

\* Code at top level writes the variable it passes by value.
caller_writes(va) ==
    /\ err = "none" /\ alive
    /\ Calls < MaxCalls
    /\ stack = <<>>
    /\ va # caller_a
    /\ caller_a' = va
    /\ writes' = writes + 1
    /\ UNCHANGED <<event_vars, stack, caller_b, written>>

\* The running handler writes, between two calls of the Event, any of: the
\* caller's variable passed by value (test.cpp:125), its own int parameter,
\* and through its int& parameter the variable fire was called with
\* (test.cpp:129-131).
handler_writes(va, vpa, vb) ==
    /\ err = "none" /\ alive
    /\ Calls < MaxCalls
    /\ stack # <<>>
    /\ <<va, vpa, vb>> # <<caller_a, Top.pa, caller_b>>
    /\ caller_a' = va
    /\ stack' = [stack EXCEPT ![Len(stack)].pa = vpa]
    /\ caller_b' = vb
    /\ written' = IF vb # caller_b THEN vb ELSE written
    /\ writes' = writes + 1
    /\ UNCHANGED event_vars

\* The Event used with arguments that the user's code writes.
UserNext ==
    \/ Next
    \/ \E va \in Values : caller_writes(va)
    \/ \E va, vpa, vb \in Values : handler_writes(va, vpa, vb)

UserSpec == Init /\ [][UserNext]_vars

----------------------------------------------------------------------------
\* Reading the history.

Started == {f \in FireIds : log[f].status # "none"}
Made == 1..made

TurnsOf(f) == log[f].turns

\* The Functions fire f called, in the order of the calls.
CalledSeq(f) ==
    LET c == SelectSeq(TurnsOf(f), LAMBDA t : t.called)
    IN [i \in 1..Len(c) |-> c[i].fn]

Called(f) == Range(CalledSeq(f))

\* The turns of fire f at which fn was called.
CallsOf(f, fn) == {i \in 1..Len(TurnsOf(f)) : TurnsOf(f)[i].fn = fn /\ TurnsOf(f)[i].called}

\* The position of fn in the weak_functions of fire f, 0 if it is not there.
PosIn(f, fn) ==
    LET wf == log[f].weak_functions
        S == {i \in 1..Len(wf) : wf[i] = fn}
    IN IF S = {} THEN 0 ELSE CHOOSE i \in S : \A j \in S : i <= j

\* Function ids are given in the order of the bind and permanent_bind calls,
\* so fn < gn says that fn was registered before gn.
RegisteredBefore(fn, gn) == fn < gn

----------------------------------------------------------------------------
\* C1: within one fire, the handlers called are called in the order in which
\* they were registered: for any two calls of the same fire, one comes before
\* the other iff its Function was registered before the other's.
C1_FireInRegistrationOrder ==
    \A f \in Started :
        LET c == CalledSeq(f) IN
        \A i, j \in 1..Len(c) :
            i < j <=> RegisteredBefore(c[i], c[j])

\* A fire has returned after calling a handler registered before and one
\* registered after a handler whose Bind had been destroyed before the fire.
C1_Witness ==
    \E f \in Started : \E x, y, z \in Made :
        /\ log[f].status = "returned"
        /\ x < y /\ y < z
        /\ {x, z} \subseteq Called(f)
        /\ unbound[y].done /\ y \notin Range(log[f].at_start)
        /\ z <= log[f].made_before

\* C2: a handler registered by bind is called by every fire that starts while
\* its Bind is held and does not fail, and once its Bind has been destroyed
\* no fire calls it any more, not even a fire that was already in progress.
C2_CalledIffBindHeld ==
    \A f \in Started : \A fn \in Made :
        kind[fn] = "bind" =>
            /\ \A i \in 1..Len(TurnsOf(f)) :
                   TurnsOf(f)[i].fn = fn =>
                       (TurnsOf(f)[i].called <=> ~TurnsOf(f)[i].released)
            /\ (log[f].status = "returned" /\ fn <= log[f].made_before
                    /\ ~unbound[fn].done) => fn \in Called(f)

\* C3: when a handler H called by fire f destroys the Bind of a handler K
\* that comes after H in f's weak_functions, f does not call K, nothing
\* fails, and f still calls the handlers after K that are bound at their turn.
C3_ForwardSkip ==
    \A K \in Made :
        LET f == unbound[K].fire
            H == unbound[K].by
        IN (unbound[K].done /\ f # 0 /\ H # K /\ PosIn(f, K) > PosIn(f, H)) =>
              /\ K \notin Called(f)
              /\ err = "none"
              /\ \A i \in 1..Len(TurnsOf(f)) :
                     (i > PosIn(f, K) /\ TurnsOf(f)[i].bound) => TurnsOf(f)[i].called

\* The frames on the stack that are calling fn.
FramesCalling(fn) == {i \in 1..Len(stack) : stack[i].shared_ptr = fn}

\* Fire f gave every weak_ptr that locked its call, and if it has returned it
\* went through all of its weak_functions.
DispatchedAll(f) ==
    /\ \A i \in 1..Len(TurnsOf(f)) : TurnsOf(f)[i].bound => TurnsOf(f)[i].called
    /\ log[f].status = "returned" => Len(TurnsOf(f)) = Len(log[f].weak_functions)

\* C4: when a handler H, called by fire f, destroys its own Bind, the
\* Function of H is not destroyed while the call runs, f still dispatches the
\* rest of its weak_functions, f called H once, and neither f nor any fire
\* called later calls H after that.
C4_SelfUnbind ==
    \A H \in Made :
        LET f == unbound[H].fire IN
        (unbound[H].done /\ unbound[H].by = H) =>
            /\ err = "none"
            /\ FramesCalling(H) # {} => use_count[H] > 0
            /\ DispatchedAll(f)
            /\ Cardinality(CallsOf(f, H)) = 1
            /\ \A g \in Started :
                   g >= f => \A i \in CallsOf(g, H) : ~TurnsOf(g)[i].released

\* H destroyed its own Bind in fire f, f went on to call a later handler and
\* returned, and a fire called afterwards has returned too.
C4_Witness ==
    \E H \in Made : \E g \in Started :
        LET f == unbound[H].fire IN
        /\ unbound[H].done /\ unbound[H].by = H
        /\ log[f].status = "returned"
        /\ \E K \in Called(f) : PosIn(f, K) > PosIn(f, H)
        /\ g > f /\ log[g].status = "returned" /\ Called(g) # {}
        /\ H <= log[g].made_before

\* C5: a handler registered while a fire is running is not called by any
\* fire that was called before the registration, and a fire called after it
\* has the handler in its weak_functions if it is bound then and calls it if
\* it is still bound at its turn.
C5_NoResurrection ==
    \A fn \in Made :
        born_in[fn] # 0 =>
            \A f \in Started :
                IF log[f].made_before < fn
                THEN /\ fn \notin Range(log[f].weak_functions)
                     /\ \A i \in 1..Len(TurnsOf(f)) : TurnsOf(f)[i].fn # fn
                ELSE /\ fn \in Range(log[f].at_start) =>
                            fn \in Range(log[f].weak_functions)
                     /\ \A i \in 1..Len(TurnsOf(f)) :
                            (TurnsOf(f)[i].fn = fn /\ TurnsOf(f)[i].bound) =>
                                TurnsOf(f)[i].called
                     /\ (log[f].status = "returned"
                            /\ fn \in Range(log[f].weak_functions)) =>
                                \E i \in 1..Len(TurnsOf(f)) : TurnsOf(f)[i].fn = fn

\* A handler was registered by a handler of fire f, f returned without
\* calling it, and the next fire called it.
C5_Witness ==
    \E fn \in Made :
        LET f == born_in[fn] IN
        /\ f # 0 /\ f + 1 \in Started
        /\ log[f].status = "returned" /\ Called(f) # {} /\ fn \notin Called(f)
        /\ log[f + 1].made_before >= fn
        /\ fn \in Called(f + 1)

\* C6: one fire calls no Function more than once.
C6_ExactlyOnce ==
    \A f \in Started : \A fn \in Made : Cardinality(CallsOf(f, fn)) <= 1

\* During a fire that called a handler, a Bind was destroyed and handlers
\* were registered, one of them by bind; the fire has returned.
C6_Witness ==
    \E f \in Started : \E fn, gn \in Made :
        /\ log[f].status = "returned" /\ Called(f) # {}
        /\ unbound[fn].done /\ unbound[fn].fire = f /\ fn \in Called(f)
        /\ born_in[gn] = f /\ kind[gn] = "bind"

\* After ~Event nothing has failed and every Bind that is left is invalid.
C7_Destroyed ==
    ~alive =>
        /\ err = "none"
        /\ \A a \in Addrs : heap[a].live => ~heap[a].is_valid

\* A step taken after ~Event fails nothing and leaves the Event's members.
C7_Step ==
    ~alive => /\ UNCHANGED <<bound_functions, binds, use_count>>
              /\ err' = "none"

\* C7: once the Event is destroyed every Bind that was outstanding is invalid,
\* and destroying such a Bind unregisters nothing, fails nothing and leaves
\* bound_functions and binds (and the Functions) alone.
C7_Teardown == []C7_Destroyed /\ [][C7_Step]_vars

\* The Event was destroyed while two Binds were held; one of them has been
\* destroyed since, the other is still held.
C7_Witness ==
    /\ ~alive
    /\ \E fn \in Made : unbound[fn].done /\ ~unbound[fn].alive
    /\ \E a \in Addrs : heap[a].live

\* C8: while the Event is alive a handler registered by permanent_bind is in
\* bound_functions, once, and every fire called after its registration that
\* has returned has called it.
C8_Permanent ==
    \A fn \in Made :
        kind[fn] = "permanent" =>
            /\ alive => Cardinality({i \in 1..Len(bound_functions) :
                                        bound_functions[i] = fn}) = 1
            /\ \A f \in Started :
                   (log[f].status = "returned" /\ fn <= log[f].made_before) =>
                       fn \in Called(f)

\* A permanent handler has been called by two fires that returned, with a
\* Bind registered before it destroyed between these fires.
C8_Witness ==
    \E fn, gn \in Made : \E f, g \in Started :
        /\ kind[fn] = "permanent" /\ gn < fn
        /\ f < g
        /\ log[f].status = "returned" /\ log[g].status = "returned"
        /\ {fn, gn} \subseteq Called(f) /\ fn \in Called(g)
        /\ unbound[gn].done /\ gn \notin Range(log[g].at_start)

\* What a step that destroys the valid Bind at address a does.
C9_Step ==
    \A a \in Addrs :
        (heap[a].live /\ heap[a].is_valid /\ ~heap'[a].live) =>
            /\ made_for[a] \in Range(bound_functions)
            /\ bound_functions' =
                   SelectSeq(bound_functions, LAMBDA x : x # made_for[a])
            /\ Len(bound_functions') = Len(bound_functions) - 1
            /\ binds' = binds \ {a}
            /\ \A b \in Addrs \ {a} :
                   /\ heap'[b] = heap[b]
                   /\ (heap[b].live /\ heap[b].is_valid) =>
                          /\ b \in binds'
                          /\ heap'[b].bound_function_iterator = made_for'[b]
                          /\ made_for'[b] \in Range(bound_functions')

\* C9: the destruction of a valid Bind removes from bound_functions the
\* Function made by the bind call that returned it and nothing else, keeps
\* the order of the others, removes the Bind from binds, and leaves every
\* other Bind as it was, valid and pointing at its own Function.
C9_ReleaseRemovesOwnEntry == [][C9_Step]_vars

\* The Bind of the second of three handlers has been destroyed; the first, a
\* permanent one, and the third, with its Bind valid, are still bound.
C9_Witness ==
    \E x, y, z \in Made : \E b \in Addrs :
        /\ x < y /\ y < z
        /\ alive /\ bound_functions = <<x, z>>
        /\ kind[x] = "permanent"
        /\ unbound[y].done /\ unbound[y].alive
        /\ heap[b].live /\ heap[b].is_valid /\ made_for[b] = z

\* A fire one of whose handlers threw was left by the exception with no
\* further turn, and the fires called after it dispatch as usual.
C10_Failed ==
    \A f \in Started :
        log[f].failed_at > 0 =>
            /\ log[f].status = "thrown"
            /\ Len(TurnsOf(f)) = log[f].failed_at
            /\ f \notin FiresOnStack
            /\ err = "none"
            /\ \A g \in Started : g > f => DispatchedAll(g)

\* The step in which a handler throws leaves the Event and the Binds alone.
C10_Step ==
    (\E f \in FireIds : log[f].failed_at = 0 /\ log'[f].failed_at > 0) =>
        UNCHANGED <<bound_functions, binds, heap, alive>>

\* C10: when a handler called by fire f throws, f is left by the exception
\* with no further turn of its loop, bound_functions, binds and the Binds
\* are as they were when it threw, and the fires called afterwards dispatch.
C10_HandlerThrows == []C10_Failed /\ [][C10_Step]_vars

\* A handler of fire f threw before f had come to a handler that was bound
\* then and is still bound: f was left without calling it.
C10_Witness ==
    \E f \in Started : \E fn \in Made :
        /\ log[f].failed_at > 0
        /\ PosIn(f, fn) > log[f].failed_at
        /\ fn \in Range(bound_functions)
        /\ fn \notin Called(f)

\* A fire called when no Function was held found bound_functions empty, made
\* no turn, called nothing and returned.
C11_NoOp ==
    \A f \in Started :
        log[f].held = {} =>
            /\ log[f].at_start = <<>>
            /\ TurnsOf(f) = <<>>
            /\ log[f].status = "returned"
            /\ log[f].failed_at = 0
            /\ err = "none"

\* A call of fire with bound_functions empty changes nothing of the Event,
\* the Binds, the Functions or the call stack.
C11_Step ==
    (fired' = fired + 1 /\ bound_functions = <<>>) =>
        UNCHANGED <<bound_functions, binds, heap, use_count, stack, alive, err>>

\* C11: a fire of an Event with nothing registered, because nothing ever was
\* or because every Bind has been destroyed, calls no handler, does not fail
\* and leaves bound_functions and binds as they were.
C11_FireEmpty == []C11_NoOp /\ [][C11_Step]_vars

\* A fire was called after the Binds of all the handlers registered until
\* then had been destroyed, and another before anything was registered.
C11_Witness ==
    \E f, g \in Started :
        /\ log[f].made_before = 0
        /\ log[g].made_before > 0 /\ log[g].held = {}
        /\ log[g].status = "returned"

\* C12: a handler's value parameter holds the value the caller's variable had
\* when fire was called, whatever was written since to that variable or by
\* other handlers to their own value parameters; a value written through a
\* reference parameter is what every handler called later sees through its
\* reference parameter, and what the caller's variable holds.
C12_Arguments ==
    /\ written # 0 => caller_b = written
    /\ \A f \in Started : \A i \in 1..Len(TurnsOf(f)) :
           TurnsOf(f)[i].called =>
               /\ TurnsOf(f)[i].pa = log[f].arg
               /\ TurnsOf(f)[i].written # 0 =>
                      TurnsOf(f)[i].pb = TurnsOf(f)[i].written

\* The first handler of a fire wrote the caller's variable and, through its
\* reference parameter, the other one; the second handler was then called
\* with the old value of the first and saw the new value of the second.
C12_Witness ==
    \E f \in Started :
        /\ Len(CalledSeq(f)) = 2
        /\ log[f].arg # caller_a
        /\ TurnsOf(f)[1].written = 0
        /\ TurnsOf(f)[2].called /\ TurnsOf(f)[2].written # 0
        /\ TurnsOf(f)[2].pb # TurnsOf(f)[1].pb

\* No node is erased twice or after ~Event, a Bind that exists belongs to a
\* Function whose Bind was not destroyed, and a valid Bind has its Event.
C13_Once ==
    /\ \A fn \in Made :
           /\ unbound[fn].erased <= 1
           /\ unbound[fn].erased = 1 => unbound[fn].done /\ unbound[fn].alive
    /\ \A a \in Addrs :
           heap[a].live =>
               /\ made_for[a] # 0 /\ ~unbound[made_for[a]].done
               /\ heap[a].is_valid => alive

\* A Bind is valid when made, stops being valid only when it is destroyed or
\* its Event is, and does not become valid again; resetting a shared_ptr<Bind>
\* that is already null changes nothing.
C13_Step ==
    /\ \A a \in Addrs :
           /\ (~heap[a].live /\ heap'[a].live) => heap'[a].is_valid
           /\ (heap[a].live /\ heap[a].is_valid
                  /\ ~(heap'[a].live /\ heap'[a].is_valid)) =>
                      \/ ~heap'[a].live
                      \/ alive /\ ~alive'
           /\ (heap[a].live /\ ~heap[a].is_valid /\ heap'[a].live) =>
                  ~heap'[a].is_valid
    /\ (\E fn \in Functions : ~unbound[fn].again /\ unbound'[fn].again) =>
           UNCHANGED <<alive, bound_functions, binds, heap, use_count, err>>

\* C13: a Bind goes from valid to invalid and never back: it is valid when
\* bind makes it, becomes invalid only by its own destruction or by ~Event,
\* its Function is erased at most once and never after ~Event, and a second
\* release of the same token does nothing.
C13_BindStateMachine == []C13_Once /\ [][C13_Step]_vars

\* One token was released, which erased its Function, and released again;
\* then the Event was destroyed while another Bind was held, now invalid.
C13_Witness ==
    /\ ~alive
    /\ \E fn \in Made : unbound[fn].erased = 1 /\ unbound[fn].again
    /\ \E a \in Addrs : heap[a].live /\ ~heap[a].is_valid

\* C14: in every state, also in the middle of a fire, each valid Bind refers
\* to exactly one node, that node is in bound_functions, and no two valid
\* Binds refer to the same node.
C14_OneEntryPerBind ==
    LET Valid == {a \in Addrs : heap[a].live /\ heap[a].is_valid}
        Nodes(a) == {i \in 1..Len(bound_functions) :
                        bound_functions[i] = heap[a].bound_function_iterator}
    IN /\ \A a \in Valid :
              /\ Cardinality(Nodes(a)) = 1
              /\ heap[a].bound_function_iterator = made_for[a]
       /\ \A a, b \in Valid :
              a # b => heap[a].bound_function_iterator
                          # heap[b].bound_function_iterator

\* In the middle of a fire two Binds are valid and a third was destroyed by a
\* handler of that fire.
C14_Witness ==
    /\ stack # <<>>
    /\ Cardinality({a \in Addrs : heap[a].live /\ heap[a].is_valid}) = 2
    /\ \E fn \in Made : unbound[fn].done /\ unbound[fn].fire = HereFire
                           /\ unbound[fn].erased = 1

C15_AssertionFailures ==
    {"assert: valid Bind not in binds", "assert: new Bind already in binds",
     "assert: invalidate of an invalid Bind"}

\* C15: no sequence of permanent_bind, bind, Bind destruction, fire (with
\* handlers that bind, destroy Binds and fire again) and Event destruction
\* fails an assertion: a valid Bind being destroyed is in binds, a new Bind
\* is not yet in binds, and ~Event invalidates only valid Binds.
C15_NoAssertionFails ==
    /\ err \notin C15_AssertionFailures
    /\ \A a \in Addrs : heap[a].live /\ heap[a].is_valid => a \in binds
    /\ alive => \A a \in binds : heap[a].live /\ heap[a].is_valid

\* All three assertions were evaluated: the Event was destroyed with a Bind
\* in binds, after a Bind was destroyed by a handler and a later bind took
\* the address it had.
C15_Witness ==
    /\ ~alive /\ err = "none"
    /\ \E a \in Addrs : heap[a].live /\ ~heap[a].is_valid
    /\ \E fn, gn \in Made :
           /\ unbound[fn].erased = 1 /\ unbound[fn].by # 0
           /\ fn < gn /\ kind[gn] = "bind" /\ ~unbound[gn].done
           /\ \E a \in Addrs : made_for[a] = gn /\ a = 1

\* C16: while the Event is alive, binds holds exactly the addresses of the
\* valid Binds, and bound_functions has one node per permanent_bind made so
\* far and one per valid Bind.
C16_BindsAreValidBinds ==
    LET Valid == {a \in Addrs : heap[a].live /\ heap[a].is_valid}
        Permanent == {fn \in Made : kind[fn] = "permanent"}
    IN alive =>
          /\ binds = Valid
          /\ Len(bound_functions) = Cardinality(Permanent) + Cardinality(Valid)

\* In the middle of a fire of a live Event, with a permanent Function and a
\* valid Bind, after another Bind was destroyed.
C16_Witness ==
    /\ alive /\ stack # <<>>
    /\ \E fn \in Made : kind[fn] = "permanent"
    /\ \E a \in binds : heap[a].is_valid
    /\ \E fn \in Made : unbound[fn].erased = 1
    /\ Len(bound_functions) = 2

\* The Functions made from the callable that another Function was made from.
C17_Twins(fn) == {gn \in Made : gn # fn /\ callable[gn] = callable[fn]}

\* C17: bind and permanent_bind make a new Function even from a callable
\* given before: bound_functions never holds a Function twice; a fire that
\* returned called each such Function once if it was still in
\* bound_functions at its turn; and after the Bind of one is destroyed the
\* other is still in bound_functions.
C17_FreshFunction ==
    /\ \A i, j \in 1..Len(bound_functions) :
           i # j => bound_functions[i] # bound_functions[j]
    /\ \A fn \in Made : callable[fn] \in Callables /\ kind[fn] # "none"
    /\ \A f \in Started : \A i \in 1..Len(log[f].at_start) :
           LET fn == log[f].at_start[i] IN
           (/\ log[f].status = "returned"
            /\ C17_Twins(fn) # {}
            /\ TurnsOf(f)[i].bound) => CallsOf(f, fn) = {i}
    /\ \A fn \in Made : \A gn \in C17_Twins(fn) :
           (unbound[fn].erased = 1 /\ alive /\ gn \in Held) =>
               /\ gn \in Range(bound_functions)
               /\ use_count[gn] >= 1

\* Two Functions were made from one callable; a fire called both, the Bind
\* of the first was destroyed, and the next fire called the second alone.
C17_Witness ==
    \E fn \in Made : \E gn \in C17_Twins(fn) : \E f, g \in Started :
        /\ CalledSeq(f) = <<fn, gn>> /\ log[f].status = "returned"
        /\ unbound[fn].erased = 1
        /\ CalledSeq(g) = <<gn>> /\ log[g].status = "returned"
        /\ bound_functions = <<gn>>

\* The frames on the stack whose handler is fn.
C18_Executing(fn) == {i \in 1..Len(stack) : stack[i].shared_ptr = fn}

\* C18: a Function is not destroyed while it is executing: each fire frame
\* holds a shared_ptr to the Function it is calling, so a Function's
\* use_count is one for its node in bound_functions plus one per frame
\* calling it, and reaches 0 only when it has no node and no frame.
C18_AliveWhileExecuting ==
    /\ \A i \in 1..Len(stack) : use_count[stack[i].shared_ptr] >= 1
    /\ \A fn \in Made :
           use_count[fn] =
               (IF fn \in Range(bound_functions) THEN 1 ELSE 0)
                   + Cardinality(C18_Executing(fn))
    /\ \A fn \in Functions \ Made : use_count[fn] = 0

\* A running handler's Bind was destroyed by another handler in a nested
\* fire, and a handler destroyed its own Bind while running.
C18_Witness ==
    /\ Len(stack) = 2
    /\ LET fn == stack[1].shared_ptr
           gn == stack[2].shared_ptr
       IN /\ fn # gn
          /\ unbound[fn].erased = 1 /\ unbound[fn].by = gn
          /\ fn \notin Range(bound_functions) /\ use_count[fn] = 1
          /\ unbound[gn].erased = 1 /\ unbound[gn].by = gn
          /\ gn \notin Range(bound_functions) /\ use_count[gn] = 1

\* A fire goes through no more elements, and makes no more calls, than
\* bound_functions had nodes when it started; it calls none of the Functions
\* made while it runs, and none twice.
C19_Bounded ==
    /\ \A f \in Started :
           /\ Len(TurnsOf(f)) <= Len(log[f].at_start)
           /\ Len(CalledSeq(f)) <= Len(log[f].at_start)
           /\ \A fn \in Called(f) : fn <= log[f].made_before
           /\ \A fn \in Called(f) : Cardinality(CallsOf(f, fn)) = 1
    /\ \A i \in 1..Len(stack) :
           stack[i].pos <= Len(log[stack[i].fire].at_start)

\* A fire that is running stops running.
C19_Ends ==
    \A f \in FireIds : (log[f].status = "running") ~> (log[f].status # "running")

\* C19: a fire ends if every handler it calls ends: it makes at most as many
\* calls as bound_functions had nodes when it started, so handlers that
\* bind at every call do not prolong the fire that calls them.
C19_FireTerminates == []C19_Bounded /\ C19_Ends

\* A fire of two Functions returned after one of its handlers had destroyed
\* its Bind and made a new Function, which the fire did not call.
C19_Witness ==
    \E f \in Started : \E fn, gn \in Made :
        /\ log[f].status = "returned"
        /\ Len(log[f].at_start) = 2 /\ Len(CalledSeq(f)) = 2
        /\ unbound[fn].erased = 1 /\ unbound[fn].fire = f /\ unbound[fn].by = fn
        /\ born_in[gn] = f /\ gn \notin Called(f)
        /\ Len(bound_functions) = 2

====
